---------------------------- MODULE Spec2Model ----------------------------
(***************************************************************************)
(* Model of the downloader bot: the catch-all message handler handle_link  *)
(* (src/main.py), the progress reporter update_progress_message, the       *)
(* platform dispatch choose_downloader and the three extraction adapters   *)
(* (src/downloaders/*.py).  The messaging API, the extraction library and  *)
(* the filesystem are collaborators whose answers are drawn from small     *)
(* sets.  Strings are sequences of one-character strings, so that strip,   *)
(* startswith, `in` and lower() are computed as Python computes them.      *)
(***************************************************************************)
EXTENDS Integers, Sequences, FiniteSets, TLC

(***************************************************************************)
(* String literals of the source.                                          *)
(***************************************************************************)
S_http == <<"h","t","t","p",":","/","/">>
S_https == <<"h","t","t","p","s",":","/","/">>
S_tiktok_com == <<"t","i","k","t","o","k",".","c","o","m">>
S_vm_tiktok_com == <<"v","m",".","t","i","k","t","o","k",".","c","o","m">>
S_youtube_com == <<"y","o","u","t","u","b","e",".","c","o","m">>
S_youtu_be == <<"y","o","u","t","u",".","b","e">>
S_soundcloud_com == <<"s","o","u","n","d","c","l","o","u","d",".","c","o","m">>
S_ffmpeg == <<"f","f","m","p","e","g">>
S_sc_host == <<"s","o","u","n","d","c","l","o","u","d",".","c","o","m","/">>
S_sc_on_host == <<"o","n",".","s","o","u","n","d","c","l","o","u","d",".","c","o","m","/">>
S_sc_m_host == <<"m",".","s","o","u","n","d","c","l","o","u","d",".","c","o","m","/">>

(***************************************************************************)
(* Inbound message texts and extraction error texts the model draws from.  *)
(***************************************************************************)
T_hello == <<"h","e","l","l","o">>
T_ftp == <<" ","f","t","p",":","/","/","y","o","u","t","u",".","b","e","/","d"," ">>
T_tiktok == <<"h","t","t","p","s",":","/","/","v","m",".","t","i","k","t","o","k",".","c","o","m","/","Z">>
T_youtube == <<"h","t","t","p",":","/","/","y","o","u","t","u","b","e",".","c","o","m","/","w">>
T_youtu_be == <<" ","h","t","t","p","s",":","/","/","y","o","u","t","u",".","b","e","/","d","\n">>
T_soundcloud == <<"h","t","t","p","s",":","/","/","s","o","u","n","d","c","l","o","u","d",".","c","o","m","/","a">>
T_sc_on == <<"h","t","t","p","s",":","/","/","o","n",".","s","o","u","n","d","c","l","o","u","d",".","c","o","m","/","a">>
T_sc_m == <<"h","t","t","p",":","/","/","m",".","s","o","u","n","d","c","l","o","u","d",".","c","o","m","/","a">>
T_sc_upper == <<"h","t","t","p","s",":","/","/","S","o","u","n","d","C","l","o","u","d",".","c","o","m","/","a">>
T_other == <<"h","t","t","p","s",":","/","/","e","x","a","m","p","l","e",".","c","o","m","/","a">>
T_query == <<"h","t","t","p","s",":","/","/","e","x","a","m","p","l","e",".","c","o","m","/","?","u","=","t","i","k","t","o","k",".","c","o","m">>
E_ffmpeg == <<"f","f","m","p","e","g"," ","n","o","t"," ","f","o","u","n","d">>
E_FFmpeg == <<"F","F","m","p","e","g"," ","e","x","i","t","e","d">>
E_http == <<"H","T","T","P"," ","E","r","r","o","r"," ","4","0","4">>

\* A message of the chat: message.text is None for a photo, a sticker, ...
TextMessage(t) == [has_text |-> TRUE, text |-> t]
NonTextMessage == [has_text |-> FALSE, text |-> <<>>]

AllMessages ==
    {NonTextMessage} \cup
    { TextMessage(t) : t \in { T_hello, T_ftp, T_tiktok, T_youtube, T_youtu_be,
                               T_soundcloud, T_sc_on, T_sc_m, T_sc_upper,
                               T_other, T_query } }

ConcMessages == { TextMessage(T_hello), TextMessage(T_tiktok), TextMessage(T_soundcloud) }

ErrorTexts == { E_ffmpeg, E_FFmpeg, E_http }

(***************************************************************************)
(* Python string operations.                                               *)
(***************************************************************************)
Whitespace == { " ", "\n", "\t", "\r" }

RECURSIVE LStrip(_)
LStrip(s) ==
    IF s # <<>> /\ Head(s) \in Whitespace THEN LStrip(Tail(s)) ELSE s

RECURSIVE RStrip(_)
RStrip(s) ==
    IF s # <<>> /\ s[Len(s)] \in Whitespace
    THEN RStrip(SubSeq(s, 1, Len(s) - 1))
    ELSE s

\* str.strip()
Strip(s) == RStrip(LStrip(s))

\* str.startswith(p)
StartsWith(s, p) == Len(p) <= Len(s) /\ SubSeq(s, 1, Len(p)) = p

\* p in s
Contains(s, p) ==
    \E i \in 1..(Len(s) - Len(p) + 1) : SubSeq(s, i, i + Len(p) - 1) = p

UpperCase == <<"A","B","C","D","E","F","G","H","I","J","K","L","M",
               "N","O","P","Q","R","S","T","U","V","W","X","Y","Z">>
LowerCase == <<"a","b","c","d","e","f","g","h","i","j","k","l","m",
               "n","o","p","q","r","s","t","u","v","w","x","y","z">>

LowerChar(c) ==
    IF \E i \in 1..Len(UpperCase) : UpperCase[i] = c
    THEN LowerCase[CHOOSE i \in 1..Len(UpperCase) : UpperCase[i] = c]
    ELSE c

\* str.lower()
Lower(s) == [i \in 1..Len(s) |-> LowerChar(s[i])]


\* str.endswith(p)
EndsWith(s, p) ==
    Len(p) <= Len(s) /\ SubSeq(s, Len(s) - Len(p) + 1, Len(s)) = p

\* Index of the last "." of s, 0 if there is none.
LastDot(s) ==
    IF \E i \in 1..Len(s) : s[i] = "."
    THEN CHOOSE i \in 1..Len(s) :
            s[i] = "." /\ \A j \in (i + 1)..Len(s) : s[j] # "."
    ELSE 0

\* os.path.splitext(name)[1]: the suffix from the last dot, "" when the name
\* has no dot or only a leading one.
SplitExt(name) ==
    IF LastDot(name) <= 1 THEN <<>> ELSE SubSeq(name, LastDot(name), Len(name))

\* name.rsplit('.', 1)[0]
RSplitDot(name) ==
    IF LastDot(name) = 0 THEN name ELSE SubSeq(name, 1, LastDot(name) - 1)

(***************************************************************************)
(* File names and extensions.                                              *)
(***************************************************************************)
X_mp3 == <<".","m","p","3">>
X_m4a == <<".","m","4","a">>
X_webm == <<".","w","e","b","m">>
X_mp4 == <<".","m","p","4">>
F_v_mp4 == <<"v",".","m","p","4">>
F_v_webm == <<"v",".","w","e","b","m">>
F_t_m4a == <<"t",".","m","4","a">>
F_t_mp3 == <<"t",".","m","p","3">>
F_t_MP3 == <<"t",".","M","P","3">>
F_u_webm == <<"u",".","w","e","b","m">>
F_t_part == <<"t",".","p","a","r","t">>

(***************************************************************************)
(* Pure decisions of the program.                                          *)
(***************************************************************************)
\* Mutant: any "scheme://" prefix is taken for a link.
startswith_scheme_any(url) == Contains(url, <<":","/","/">>)

\* handle_link: url.startswith(('http://', 'https://'))
startswith_scheme(url) == StartsWith(url, S_http) \/ StartsWith(url, S_https)

\* choose_downloader: the if/elif chain that selects the adapter.
choose_downloader(url) ==
    IF Contains(url, S_tiktok_com) \/ Contains(url, S_vm_tiktok_com)
    THEN "tiktok"
    ELSE IF Contains(url, S_youtube_com) \/ Contains(url, S_youtu_be)
    THEN "youtube"
    ELSE IF Contains(url, S_soundcloud_com)
    THEN "soundcloud"
    ELSE "unsupported"

\* is_soundcloud_url: re.match of three anchored patterns, re.IGNORECASE.
\* "https?://" is matched by either scheme; the rest is literal.
is_soundcloud_url(url) ==
    \E scheme \in {S_http, S_https}, host \in {S_sc_host, S_sc_on_host, S_sc_m_host} :
        StartsWith(Lower(url), scheme \o host)

\* handle_link: MAX_SIZE = 49 * 1024 * 1024
MAX_SIZE == 49 * 1024 * 1024

\* Mutant: the ceiling itself is rejected.
SizeAccepted_strict(filesize) == filesize < MAX_SIZE

\* handle_link: `if filesize <= MAX_SIZE`
SizeAccepted(filesize) == filesize <= MAX_SIZE

\* handle_link: `if file_extension == '.mp3'` selects send_audio.
IsAudioExtension(file_extension) == file_extension = X_mp3

\* download_soundcloud: file.endswith(('.mp3', '.m4a', '.webm', '.mp4'))
ScanExtensions == { X_mp3, X_m4a, X_webm, X_mp4 }

ScanMatches(name) == \E x \in ScanExtensions : EndsWith(name, x)

\* Mutant: every failure of the primary extraction is taken for a converter
\* failure.
IsConverterError_any(error) == TRUE

\* Mutant: the error text is searched without lower().
IsConverterError_cased(error) == Contains(error, S_ffmpeg)

\* download_soundcloud: `"ffmpeg" in result['error'].lower()`
IsConverterError(error) == Contains(Lower(error), S_ffmpeg)

\* get_ffmpeg_path, for a filesystem env = [tools_dir, tools_ffmpeg, path_ffmpeg].
get_ffmpeg_path(env) ==
    IF ~env.tools_dir THEN "None"
    ELSE IF env.tools_ffmpeg THEN "tools/ffmpeg"
    ELSE IF env.path_ffmpeg THEN "PATH/ffmpeg"
    ELSE "None"

FsEnvs ==
    { e \in [tools_dir : BOOLEAN, tools_ffmpeg : BOOLEAN, path_ffmpeg : BOOLEAN] :
        e.tools_ffmpeg => e.tools_dir }

NoEnv == [tools_dir |-> FALSE, tools_ffmpeg |-> FALSE, path_ffmpeg |-> FALSE]

\* run_yt_dlp: ydl_opts.  The FFmpegExtractAudio post-processor (mp3, 192) is
\* part of the literal; only ffmpeg_location depends on the resolved path.
run_yt_dlp_opts(ffmpeg_executable) ==
    [ postprocessors |-> TRUE,
      ffmpeg_location |-> ffmpeg_executable # "None" ]

NoOpts == [postprocessors |-> FALSE, ffmpeg_location |-> FALSE]

(***************************************************************************)
(* The collaborators' possible answers.                                    *)
(***************************************************************************)
\* File sizes around the relay ceiling.
Sizes == { MAX_SIZE - 1, MAX_SIZE, MAX_SIZE + 1 }

File(name, size) == [name |-> name, size |-> size]

\* What one extract_info(url, download=True) call does: it raises, or it
\* returns an info record from which prepare_filename derives `filename`,
\* having written `written` into the destination directory.
\* `info` tells whether the info record is truthy (a non-empty dict).
Raises(error) ==
    [raised |-> TRUE, error |-> error, filename |-> <<>>, written |-> {},
     info |-> FALSE]
Returns(filename, written) ==
    [raised |-> FALSE, error |-> <<>>, filename |-> filename, written |-> written,
     info |-> TRUE]
ReturnsEmptyInfo(filename, written) ==
    [Returns(filename, written) EXCEPT !.info = FALSE]
NoOutcome == Raises(<<>>)

\* download_tiktok.run / download_youtube.run: outtmpl "%(id)s.%(ext)s".
VideoOutcomes ==
    { Raises(E_http), Returns(F_v_mp4, {}) }
    \cup { Returns(F_v_mp4, {File(n, s)}) : n \in {F_v_mp4, F_v_webm}, s \in Sizes }

\* run_yt_dlp: outtmpl "%(title)s.%(ext)s", FFmpegExtractAudio to mp3.
AudioOutcomes ==
    { Raises(e) : e \in ErrorTexts }
    \cup { Returns(F_t_m4a, {}), Returns(F_t_m4a, {File(F_t_part, MAX_SIZE - 1)}) }
    \cup { ReturnsEmptyInfo(F_t_m4a, {File(F_t_mp3, MAX_SIZE - 1)}) }
    \cup { Returns(F_t_m4a, {File(n, s)}) :
             n \in {F_t_mp3, F_t_m4a, F_u_webm}, s \in Sizes }

\* download_without_conversion: same template, no post-processing.
FallbackOutcomes ==
    { Raises(E_http) }
    \cup { Returns(n, {}) : n \in {F_t_m4a, F_t_MP3} }
    \cup { Returns(n, {File(n, s)}) : n \in {F_t_m4a, F_t_MP3}, s \in Sizes }

\* What can go wrong inside add_metadata_to_mp3 once the file is there: the
\* tag container cannot be read or created, the cover-art fetch fails (an
\* exception or a status other than 200), audio.save() fails.
TagFaults == { "none", "container", "cover", "save" }

(***************************************************************************)
(* State.                                                                  *)
(***************************************************************************)
\* Number of handler invocations (inbound updates) the model follows.
NumReqs == 2
Reqs == 1..NumReqs

\* message_id=None
NoMsgId == 0

VARIABLES
    req,               \* per handler invocation: the coroutine's locals and position
    chat,              \* the messages of the bot that are live in the chat
    next_message_id,   \* the id the messaging API gives the next message
    loop_blocked_by,   \* the invocations running synchronous code on the event loop
    progress_message,  \* main.py module-level `progress_message`
    world              \* what the users and the collaborators may do (fixed)

vars == <<req, chat, next_message_id, loop_blocked_by, progress_message, world>>

Ev(op, site, ok, id) == [op |-> op, site |-> site, ok |-> ok, id |-> id]

NoCall == [site |-> "", message_id |-> NoMsgId, edit |-> "none",
           sent |-> NoMsgId, ret |-> NoMsgId, state |-> "none"]

NoTag == [state |-> "none", file |-> FALSE, info |-> FALSE, fault |-> "none",
          value |-> FALSE]

IdleRequest ==
    [ pc |-> "idle",
      message |-> NonTextMessage,
      url |-> <<>>,
      progress_msg_id |-> NoMsgId,
      branch |-> "",               \* the adapter choose_downloader selected
      platform |-> "",
      file_path |-> <<>>,
      filesize |-> 0,
      file_extension |-> <<>>,
      tmpdir |-> "none",           \* none | exists | removed
      files |-> {},                \* the directory's contents
      worker |-> "none",           \* the executor thread: none | running | finished
      worker_result |-> NoOutcome,
      env |-> NoEnv,               \* the filesystem get_ffmpeg_path looked at
      ffmpeg_executable |-> "None",
      ydl_opts |-> NoOpts,         \* the options run_yt_dlp gave the extraction
      primary |-> NoOutcome,       \* run_yt_dlp's extraction outcome
      fallback |-> NoOutcome,      \* download_without_conversion's outcome
      sc_filename |-> <<>>,        \* result['filename'] / filename
      tag |-> NoTag,               \* the add_metadata_to_mp3 call, once made
      upm |-> NoCall,              \* the current (or last) update_progress_message call
      log |-> <<>> ]               \* the collaborator calls made, in order

TypeOK ==
    /\ DOMAIN req = Reqs
    /\ next_message_id \in Nat \ {NoMsgId}
    /\ loop_blocked_by \subseteq Reqs
    /\ \A m \in chat : m.id < next_message_id

\* One update at a time; every message, every collaborator answer, failures
\* of the messaging API and cancellation.
FullWorld ==
    [ active |-> {1},
      inputs |-> AllMessages,
      faults |-> TRUE,
      cancel |-> TRUE,
      video |-> VideoOutcomes,
      audio |-> AudioOutcomes,
      fallback |-> FallbackOutcomes,
      tagfaults |-> TagFaults,
      envs |-> FsEnvs ]

\* Several updates handled concurrently (one task per update), with a
\* messaging API that answers and one outcome per extraction call: the video
\* download succeeds, the audio download goes through the fallback.
ConcWorld ==
    [ active |-> Reqs,
      inputs |-> ConcMessages,
      faults |-> FALSE,
      cancel |-> TRUE,
      video |-> { Returns(F_v_mp4, {File(F_v_mp4, MAX_SIZE - 1)}) },
      audio |-> { Raises(E_ffmpeg) },
      fallback |-> { Returns(F_t_m4a, {File(F_t_m4a, MAX_SIZE - 1)}) },
      tagfaults |-> { "none" },
      envs |-> { e \in FsEnvs : e.tools_dir /\ e.tools_ffmpeg /\ e.path_ffmpeg } ]

\* One update at a time with every collaborator answer and failure, but one
\* link per branch of the handler and the environments in which a converter
\* is on the search path.
FairWorld ==
    [ FullWorld EXCEPT
        !.inputs = {NonTextMessage} \cup
                   { TextMessage(t) : t \in { T_hello, T_tiktok, T_youtu_be,
                                              T_soundcloud, T_other } },
        !.envs = { e \in FsEnvs : e.path_ffmpeg } ]

InitIn(w) ==
    /\ req = [r \in Reqs |-> IdleRequest]
    /\ chat = {}
    /\ next_message_id = 1
    /\ loop_blocked_by = {}
    /\ progress_message = "None"
    /\ world = w

Init == InitIn(FullWorld)

ConcInit == InitIn(ConcWorld)

FairInit == InitIn(FairWorld)

Logged(rq, e) == [rq EXCEPT !.log = Append(@, e)]

Live(id) == \E m \in chat : m.id = id

\* A coroutine step runs only when no synchronous call holds the event loop.
LoopFree == loop_blocked_by = {}

\* How a handler invocation ends: Done (the file and the confirmation were
\* sent), Returned (it returned after a failure notice), Escaped (an exception
\* left the handler), Cancelled.  The last three are the request's Failed state.
Terminal == { "Done", "Returned", "Escaped", "Cancelled" }
FailedStates == { "Returned", "Escaped", "Cancelled" }

(***************************************************************************)
(* handle_link's control flow around the calls.                            *)
(***************************************************************************)
\* Mutant: a directory made with mkdtemp and never removed.
TemporaryDirectoryExit_leak(rq) == rq

\* tempfile.TemporaryDirectory.__exit__: the directory and its contents are
\* removed however the `with` block is left.
TemporaryDirectoryExit(rq) ==
    IF rq.tmpdir = "exists"
    THEN [rq EXCEPT !.tmpdir = "removed", !.files = {}]
    ELSE rq

\* The handler is left: by return, by an exception no except clause catches,
\* or by CancelledError.
Leave(rq, how) == [TemporaryDirectoryExit(rq) EXCEPT !.pc = how]

\* Mutant: one process-wide progress notice (the first one sent) is the target
\* of every request's edits.
CallUpm_shared(rq, site, message_id) ==
    [rq EXCEPT
       !.pc = IF message_id # NoMsgId THEN "upm_edit" ELSE "upm_send",
       !.upm = [site |-> site,
                message_id |-> IF message_id # NoMsgId THEN 1 ELSE NoMsgId,
                edit |-> "none", sent |-> NoMsgId, ret |-> NoMsgId,
                state |-> "running"]]

\* update_progress_message(chat_id, text, message_id): `if message_id:`
CallUpm(rq, site, message_id) ==
    [rq EXCEPT
       !.pc = IF message_id # NoMsgId THEN "upm_edit" ELSE "upm_send",
       !.upm = [site |-> site, message_id |-> message_id, edit |-> "none",
                sent |-> NoMsgId, ret |-> NoMsgId, state |-> "running"]]

\* `except Exception` of the download try block: report through the progress
\* message, then return.
DownloadError(rq) == CallUpm(rq, "dlerr", rq.progress_msg_id)

\* Mutant: the relay's exception is dropped and the confirmation is sent.
SendingError_ignored(rq) == [rq EXCEPT !.pc = "success"]

\* Mutant: a failed delete_message is passed over and the file is uploaded.
SendingError_after_delete(rq) ==
    IF rq.pc = "delete_progress"
    THEN [rq EXCEPT !.pc = "upload"]
    ELSE CallUpm(rq, "senderr", rq.progress_msg_id)

\* `except Exception` of the relay try block.
SendingError(rq) == CallUpm(rq, "senderr", rq.progress_msg_id)

\* update_progress_message: `return message_id` after a successful edit.
upm_edit_return(message_id) == message_id

\* Mutant: the id passed in is returned after the fallback send.
upm_send_return_stale(message_id, msg_id) == message_id

\* update_progress_message: `return msg.message_id` after send_message.
upm_send_return(message_id, msg_id) == msg_id

\* Where each call of update_progress_message returns to.
UpmReturn(rq, id) ==
    LET done == [rq EXCEPT !.upm.ret = id, !.upm.state = "returned"]
        site == rq.upm.site
    IN  CASE site = "checking" ->
               \* progress_msg_id = await ...; with TemporaryDirectory() as tmpdir
               [done EXCEPT !.progress_msg_id = id, !.tmpdir = "exists",
                            !.pc = "choose"]
          [] site = "platform" ->
               \* the returned id is dropped; the adapter is called
               [done EXCEPT !.pc = IF done.branch = "soundcloud"
                                   THEN "sc_start" ELSE "submit"]
          [] site = "sending" -> [done EXCEPT !.pc = "check_exists"]
          [] site \in {"dlerr", "notfound", "toolarge", "senderr"} ->
               Leave(done, "Returned")

\* Where an exception of update_progress_message goes.
UpmRaise(rq) ==
    LET done == [rq EXCEPT !.upm.state = "raised"]
        site == rq.upm.site
    IN  CASE site = "checking" -> Leave(done, "Escaped")
          [] site \in {"platform", "sending"} -> DownloadError(done)
          [] site = "toolarge" -> SendingError(done)
          [] site \in {"dlerr", "notfound", "senderr"} -> Leave(done, "Escaped")

(***************************************************************************)
(* handle_link, step by step.  Each action is one resumption of the        *)
(* coroutine: the code from one await to the next.                         *)
(***************************************************************************)
\* handle_link up to its first await: message.text.strip(), the scheme test.
handle_link_entry(rq, m) ==
    IF ~m.has_text
    THEN \* None.strip(): AttributeError, outside every try block
         Leave(Logged([rq EXCEPT !.message = m],
                      Ev("raise", "strip", FALSE, NoMsgId)), "Escaped")
    ELSE LET url == Strip(m.text)
             got == [rq EXCEPT !.message = m, !.url = url]
         IN  IF ~startswith_scheme(url)
             THEN [got EXCEPT !.pc = "answer_invalid"]
             ELSE CallUpm(got, "checking", NoMsgId)

Receive(r) ==
    /\ r \in world.active
    /\ req[r].pc = "idle"
    /\ LoopFree
    /\ \E m \in world.inputs : req' = [req EXCEPT ![r] = handle_link_entry(@, m)]
    /\ UNCHANGED <<chat, next_message_id, loop_blocked_by, progress_message, world>>

\* await message.answer("Please send a valid link..."); return
AnswerInvalid(r) ==
    /\ req[r].pc = "answer_invalid"
    /\ LoopFree
    /\ \/ /\ req' = [req EXCEPT ![r] =
                Leave(Logged(@, Ev("answer", "invalid", TRUE, next_message_id)),
                      "Returned")]
          /\ chat' = chat \cup {[id |-> next_message_id, req |-> r, site |-> "invalid"]}
          /\ next_message_id' = next_message_id + 1
       \/ /\ world.faults
          /\ req' = [req EXCEPT ![r] =
                Leave(Logged(@, Ev("answer", "invalid", FALSE, NoMsgId)),
                      "Escaped")]
          /\ UNCHANGED <<chat, next_message_id>>
    /\ UNCHANGED <<loop_blocked_by, progress_message, world>>

\* update_progress_message: await bot.edit_message_text(...) in its try block.
UpmEdit(r) ==
    /\ req[r].pc = "upm_edit"
    /\ LoopFree
    /\ LET rq == req[r]
           mid == rq.upm.message_id
       IN  \/ /\ Live(mid)
              /\ chat' = { IF m.id = mid THEN [m EXCEPT !.site = rq.upm.site] ELSE m :
                           m \in chat }
              /\ req' = [req EXCEPT ![r] =
                    UpmReturn(Logged([rq EXCEPT !.upm.edit = "ok"],
                                     Ev("edit", rq.upm.site, TRUE, mid)),
                              upm_edit_return(mid))]
           \/ \* the edit raises (message gone, rate limit, text unchanged):
              \* logged as a warning, execution falls through to send_message
              /\ world.faults \/ ~Live(mid)
              /\ req' = [req EXCEPT ![r] =
                    Logged([rq EXCEPT !.upm.edit = "failed", !.pc = "upm_send"],
                           Ev("edit", rq.upm.site, FALSE, mid))]
              /\ UNCHANGED chat
    /\ UNCHANGED <<next_message_id, loop_blocked_by, progress_message, world>>

\* update_progress_message: msg = await bot.send_message(...); return msg.message_id
UpmSend(r) ==
    /\ req[r].pc = "upm_send"
    /\ LoopFree
    /\ LET rq == req[r]
       IN  \/ /\ chat' = chat \cup
                    {[id |-> next_message_id, req |-> r, site |-> rq.upm.site]}
              /\ next_message_id' = next_message_id + 1
              /\ req' = [req EXCEPT ![r] =
                    UpmReturn(Logged([rq EXCEPT !.upm.sent = next_message_id],
                                     Ev("send", rq.upm.site, TRUE, next_message_id)),
                              upm_send_return(rq.upm.message_id, next_message_id))]
           \/ /\ world.faults
              /\ req' = [req EXCEPT ![r] =
                    UpmRaise(Logged(rq, Ev("send", rq.upm.site, FALSE, NoMsgId)))]
              /\ UNCHANGED <<chat, next_message_id>>
    /\ UNCHANGED <<loop_blocked_by, progress_message, world>>

\* Mutant: the adapter is called without the platform's progress text.
choose_downloader_entry_silent(rq) ==
    LET b == choose_downloader(rq.url)
    IN  IF b = "unsupported"
        THEN DownloadError(Logged(rq, Ev("raise", "unsupported", FALSE, NoMsgId)))
        ELSE [rq EXCEPT !.branch = b,
                        !.pc = IF b = "soundcloud" THEN "sc_start" ELSE "submit"]

\* choose_downloader up to its first await: the branch, then the platform's
\* progress text; the else branch raises ValueError into handle_link's except.
choose_downloader_entry(rq) ==
    LET b == choose_downloader(rq.url)
    IN  IF b = "unsupported"
        THEN DownloadError(Logged(rq, Ev("raise", "unsupported", FALSE, NoMsgId)))
        ELSE CallUpm([rq EXCEPT !.branch = b], "platform", rq.progress_msg_id)

ChooseDownloader(r) ==
    /\ req[r].pc = "choose"
    /\ LoopFree
    /\ req' = [req EXCEPT ![r] = choose_downloader_entry(@)]
    /\ UNCHANGED <<chat, next_message_id, loop_blocked_by, progress_message, world>>

(***************************************************************************)
(* download_tiktok / download_youtube: run() is handed to the default      *)
(* executor and awaited.                                                   *)
(***************************************************************************)
\* result = await loop.run_in_executor(None, run): the thread is started.
Submit(r) ==
    /\ req[r].pc = "submit"
    /\ LoopFree
    /\ req' = [req EXCEPT ![r] =
          Logged([@ EXCEPT !.pc = "await_worker", !.worker = "running"],
                 Ev("adapter", @.branch, TRUE, NoMsgId))]
    /\ UNCHANGED <<chat, next_message_id, loop_blocked_by, progress_message, world>>

\* run(), on the executor thread: extract_info(url, download=True), then
\* filename = prepare_filename(video_info); the file's existence only feeds
\* the log line, `filename` is returned either way.  The thread is not
\* stopped when the awaiting task is cancelled; it can then no longer write
\* into the removed directory.
WorkerRun(r) ==
    /\ req[r].worker = "running"
    /\ \E o \in world.video :
          req' = [req EXCEPT ![r] =
             [@ EXCEPT !.worker = "finished", !.worker_result = o,
                       !.files = IF req[r].tmpdir = "exists"
                                 THEN @ \cup o.written ELSE @]]
    /\ UNCHANGED <<chat, next_message_id, loop_blocked_by, progress_message, world>>

\* Mutant: a failed download is submitted a second time.
adapter_resume_retry(rq) ==
    LET o == rq.worker_result
    IN  IF o.raised /\ Cardinality({ i \in 1..Len(rq.log) : rq.log[i].op = "adapter" }) < 2
        THEN [rq EXCEPT !.pc = "submit"]
        ELSE IF o.raised
        THEN DownloadError(Logged(rq, Ev("raise", rq.branch, FALSE, NoMsgId)))
        ELSE CallUpm([rq EXCEPT !.file_path = o.filename, !.platform = rq.branch],
                     "sending", rq.progress_msg_id)

\* The await resumes with the thread's result: `return result`, or the
\* thread's exception re-raised up to handle_link's `except Exception`.
adapter_resume(rq) ==
    LET o == rq.worker_result
    IN  IF o.raised
        THEN DownloadError(Logged(rq, Ev("raise", rq.branch, FALSE, NoMsgId)))
        ELSE CallUpm([rq EXCEPT !.file_path = o.filename, !.platform = rq.branch],
                     "sending", rq.progress_msg_id)

Resume(r) ==
    /\ req[r].pc = "await_worker"
    /\ req[r].worker = "finished"
    /\ LoopFree
    /\ req' = [req EXCEPT ![r] = adapter_resume(@)]
    /\ UNCHANGED <<chat, next_message_id, loop_blocked_by, progress_message, world>>

(***************************************************************************)
(* download_soundcloud: run_yt_dlp and download_without_conversion call    *)
(* extract_info directly inside the coroutine.                             *)
(***************************************************************************)
Exists(files, name) == \E f \in files : f.name = name

\* download_soundcloud up to extract_info: makedirs, get_ffmpeg_path (twice,
\* same answer), the options; then the synchronous call begins.
ScStart(r) ==
    /\ req[r].pc = "sc_start"
    /\ LoopFree
    /\ \E env \in world.envs :
          req' = [req EXCEPT ![r] =
             Logged(Logged([@ EXCEPT !.pc = "sc_extract",
                                     !.env = env,
                                     !.ffmpeg_executable = get_ffmpeg_path(env),
                                     !.ydl_opts = run_yt_dlp_opts(get_ffmpeg_path(env))],
                           Ev("adapter", "soundcloud", TRUE, NoMsgId)),
                    Ev("run_yt_dlp", get_ffmpeg_path(env), TRUE, NoMsgId))]
    /\ loop_blocked_by' = loop_blocked_by \cup {r}
    /\ UNCHANGED <<chat, next_message_id, progress_message, world>>

\* download_soundcloud: `return result['filename']`, back in handle_link.
sc_return(rq) ==
    CallUpm([rq EXCEPT !.file_path = rq.sc_filename, !.platform = "soundcloud"],
            "sending", rq.progress_msg_id)

\* download_soundcloud: `if result['info']: await add_metadata_to_mp3(...)`
sc_tag_if_info(rq) ==
    IF rq.primary.info THEN [rq EXCEPT !.pc = "sc_tag"] ELSE sc_return(rq)

\* download_soundcloud after run_yt_dlp returned `result`: the requests the
\* code can be in next (the directory scan takes os.listdir's order).
after_run_yt_dlp(rq, o) ==
    LET got == [rq EXCEPT !.primary = o, !.files = @ \cup o.written]
        mp3_filename == RSplitDot(o.filename) \o X_mp3
        final_filename == IF Exists(got.files, mp3_filename)
                          THEN mp3_filename ELSE o.filename
        found == { f \in got.files : ScanMatches(f.name) }
    IN  IF o.raised
        THEN IF IsConverterError(o.error)
             THEN \* return await download_without_conversion(url, dest_folder)
                  { Logged([got EXCEPT !.pc = "fb_extract"],
                           Ev("fallback", "soundcloud", TRUE, NoMsgId)) }
             ELSE \* raise Exception("yt-dlp error: ...")
                  { DownloadError(Logged(got, Ev("raise", "soundcloud", FALSE, NoMsgId))) }
        ELSE IF Exists(got.files, final_filename)
        THEN { sc_tag_if_info([got EXCEPT !.sc_filename = final_filename]) }
        ELSE IF found # {}
        THEN { sc_tag_if_info(Logged([got EXCEPT !.sc_filename = f.name],
                                     Ev("scan", "soundcloud", TRUE, NoMsgId))) :
               f \in found }
        ELSE \* raise Exception("File was not created")
             { DownloadError(Logged(got, Ev("scan", "soundcloud", FALSE, NoMsgId))) }

\* run_yt_dlp's extract_info returns or raises; run_yt_dlp turns an exception
\* into a result with success False.
ScExtract(r) ==
    /\ req[r].pc = "sc_extract"
    /\ \E o \in world.audio :
          \E nrq \in after_run_yt_dlp(req[r], o) :
             /\ req' = [req EXCEPT ![r] = nrq]
             /\ loop_blocked_by' = IF nrq.pc = "fb_extract"
                                   THEN loop_blocked_by
                                   ELSE loop_blocked_by \ {r}
    /\ UNCHANGED <<chat, next_message_id, progress_message, world>>

\* download_without_conversion: extract_info, filename = prepare_filename(info),
\* then add_metadata_to_mp3(filename, info) with no test of either; an
\* exception is re-raised as "Error downloading without conversion", which
\* download_soundcloud's `except Exception` wraps once more.
after_fallback(rq, o) ==
    LET got == [rq EXCEPT !.fallback = o, !.files = @ \cup o.written]
    IN  IF o.raised
        THEN DownloadError(Logged(got, Ev("raise", "fallback", FALSE, NoMsgId)))
        ELSE [got EXCEPT !.sc_filename = o.filename, !.pc = "sc_tag"]

FbExtract(r) ==
    /\ req[r].pc = "fb_extract"
    /\ \E o \in world.fallback :
          req' = [req EXCEPT ![r] = after_fallback(@, o)]
    /\ loop_blocked_by' = loop_blocked_by \ {r}
    /\ UNCHANGED <<chat, next_message_id, progress_message, world>>

\* add_metadata_to_mp3: False for a missing file; every exception of the tag
\* library is caught by `except Exception` and answered False; add_cover_art
\* catches its own failures, so the tags are saved without a cover.
add_metadata_to_mp3(exists, fault) ==
    IF ~exists THEN [raised |-> FALSE, value |-> FALSE]
    ELSE IF fault \in {"container", "save"} THEN [raised |-> FALSE, value |-> FALSE]
    ELSE [raised |-> FALSE, value |-> TRUE]

\* await add_metadata_to_mp3(filename, info), its answer dropped, then
\* `return filename`.
sc_tag(rq, fault) ==
    LET exists == Exists(rq.files, rq.sc_filename)
        info == IF rq.primary.raised THEN rq.fallback.info ELSE rq.primary.info
        t == add_metadata_to_mp3(exists, fault)
        called == Logged([rq EXCEPT !.tag = [state |-> IF t.raised THEN "raised"
                                                       ELSE "returned",
                                            file |-> exists, info |-> info,
                                            fault |-> fault, value |-> t.value]],
                         Ev("tag", "soundcloud", t.value, NoMsgId))
    IN  IF t.raised
        THEN DownloadError(Logged(called, Ev("raise", "tag", FALSE, NoMsgId)))
        ELSE sc_return(called)

ScTag(r) ==
    /\ req[r].pc = "sc_tag"
    /\ LoopFree
    /\ \E fault \in world.tagfaults :
          req' = [req EXCEPT ![r] = sc_tag(@, fault)]
    /\ UNCHANGED <<chat, next_message_id, loop_blocked_by, progress_message, world>>

(***************************************************************************)
(* handle_link after the download: existence, size, relay.                 *)
(***************************************************************************)
SizeOf(files, name) == (CHOOSE f \in files : f.name = name).size

\* os.path.exists(file_path); getsize; splitext(...)[1].lower(); the size test.
check_file(rq) ==
    IF ~Exists(rq.files, rq.file_path)
    THEN CallUpm(rq, "notfound", rq.progress_msg_id)
    ELSE LET got == [rq EXCEPT !.filesize = SizeOf(rq.files, rq.file_path),
                               !.file_extension = Lower(SplitExt(rq.file_path))]
         IN  IF SizeAccepted(got.filesize)
             THEN [got EXCEPT !.pc = "delete_progress"]
             ELSE CallUpm(got, "toolarge", got.progress_msg_id)

CheckFile(r) ==
    /\ req[r].pc = "check_exists"
    /\ LoopFree
    /\ req' = [req EXCEPT ![r] = check_file(@)]
    /\ UNCHANGED <<chat, next_message_id, loop_blocked_by, progress_message, world>>

\* await bot.delete_message(chat_id, progress_msg_id)
DeleteProgress(r) ==
    /\ req[r].pc = "delete_progress"
    /\ LoopFree
    /\ LET rq == req[r]
           mid == rq.progress_msg_id
       IN  \/ /\ Live(mid)
              /\ chat' = { m \in chat : m.id # mid }
              /\ req' = [req EXCEPT ![r] =
                    Logged([rq EXCEPT !.pc = "upload"], Ev("delete", "progress", TRUE, mid))]
           \/ /\ world.faults \/ ~Live(mid)
              /\ req' = [req EXCEPT ![r] =
                    SendingError(Logged(rq, Ev("delete", "progress", FALSE, mid)))]
              /\ UNCHANGED chat
    /\ UNCHANGED <<next_message_id, loop_blocked_by, progress_message, world>>

\* Mutant: every file is relayed as a video.
upload_kind_video(rq) == "answer_video"

\* The attachment kind: send_audio_to_telegram for '.mp3', answer_video otherwise.
upload_kind(rq) ==
    IF IsAudioExtension(rq.file_extension) THEN "send_audio" ELSE "answer_video"

\* await send_audio_to_telegram(bot, chat_id, file_path) (which re-raises), or
\* await message.answer_video(video=video)
Upload(r) ==
    /\ req[r].pc = "upload"
    /\ LoopFree
    /\ LET rq == req[r]
       IN  \/ /\ chat' = chat \cup
                    {[id |-> next_message_id, req |-> r, site |-> upload_kind(rq)]}
              /\ next_message_id' = next_message_id + 1
              /\ req' = [req EXCEPT ![r] =
                    Logged([rq EXCEPT !.pc = "success"],
                           Ev(upload_kind(rq), "file", TRUE, next_message_id))]
           \/ /\ world.faults
              /\ req' = [req EXCEPT ![r] =
                    SendingError(Logged(rq, Ev(upload_kind(rq), "file", FALSE, NoMsgId)))]
              /\ UNCHANGED <<chat, next_message_id>>
    /\ UNCHANGED <<loop_blocked_by, progress_message, world>>

\* await send_success_message(chat_id, platform, filename); then the try
\* block and the with block end.
SendSuccess(r) ==
    /\ req[r].pc = "success"
    /\ LoopFree
    /\ LET rq == req[r]
       IN  \/ /\ chat' = chat \cup
                    {[id |-> next_message_id, req |-> r, site |-> "success"]}
              /\ next_message_id' = next_message_id + 1
              /\ req' = [req EXCEPT ![r] =
                    Leave(Logged(rq, Ev("success", rq.platform, TRUE, next_message_id)),
                          "Done")]
           \/ /\ world.faults
              /\ req' = [req EXCEPT ![r] =
                    SendingError(Logged(rq, Ev("success", rq.platform, FALSE, NoMsgId)))]
              /\ UNCHANGED <<chat, next_message_id>>
    /\ UNCHANGED <<loop_blocked_by, progress_message, world>>

\* The positions where the coroutine is suspended in an await that yields to
\* the event loop.
Suspended ==
    { "answer_invalid", "upm_edit", "upm_send", "await_worker", "sc_tag",
      "delete_progress", "upload", "success" }

\* The task is cancelled (shutdown): CancelledError is raised at the await;
\* it is no Exception, so no except clause of handle_link catches it, and the
\* with block is left.
Cancel(r) ==
    /\ world.cancel
    /\ req[r].pc \in Suspended
    /\ LoopFree
    /\ req' = [req EXCEPT ![r] =
          Leave(Logged(@, Ev("cancel", @.pc, FALSE, NoMsgId)), "Cancelled")]
    /\ UNCHANGED <<chat, next_message_id, loop_blocked_by, progress_message, world>>

Step(r) ==
    \/ Receive(r)
    \/ AnswerInvalid(r)
    \/ UpmEdit(r)
    \/ UpmSend(r)
    \/ ChooseDownloader(r)
    \/ Submit(r)
    \/ WorkerRun(r)
    \/ Resume(r)
    \/ ScStart(r)
    \/ ScExtract(r)
    \/ FbExtract(r)
    \/ ScTag(r)
    \/ CheckFile(r)
    \/ DeleteProgress(r)
    \/ Upload(r)
    \/ SendSuccess(r)
    \/ Cancel(r)

Next == \E r \in Reqs : Step(r)

Spec == Init /\ [][Next]_vars

\* Two updates in flight at once.
SpecConc == ConcInit /\ [][Next]_vars

\* Every collaborator call returns or raises, and the event loop resumes a
\* coroutine that can run.
FairSpec == FairInit /\ [][Next]_vars /\ \A r \in Reqs : WF_vars(Step(r))

(***************************************************************************)
(* Properties.                                                             *)
(***************************************************************************)
\* The positions in the log of the calls whose op is in ops.
Calls(rq, ops) == { i \in 1..Len(rq.log) : rq.log[i].op \in ops }

UploadOps == { "send_audio", "answer_video" }
RelayOps == { "delete", "send_audio", "answer_video", "success" }
MessagingOps == { "answer", "edit", "send", "delete", "send_audio",
                  "answer_video", "success" }

C2_InvalidText ==
    \A r \in Reqs :
        LET rq == req[r]
            trimmed == Strip(rq.message.text)
        IN  ( /\ rq.pc # "idle"
              /\ rq.message.has_text
              /\ ~StartsWith(trimmed, S_http)
              /\ ~StartsWith(trimmed, S_https) )
            => /\ \A i \in 1..Len(rq.log) :
                     /\ rq.log[i].op \in {"answer", "cancel"}
                     /\ rq.log[i].site \in {"invalid", "answer_invalid"}
               /\ rq.tmpdir = "none"
               /\ rq.upm = NoCall
               /\ rq.worker = "none"
               /\ rq.branch = ""
               /\ rq.pc \in {"answer_invalid"} \cup FailedStates
               /\ rq.pc \in {"Returned", "Escaped"} => Calls(rq, {"answer"}) # {}
               /\ rq.pc = "Returned" =>
                     \E m \in chat : m.req = r /\ m.site = "invalid"

\* C2 witness: " ftp://youtu.be/d " was answered with the validation notice.
C2_Witness ==
    \E r \in Reqs :
        /\ req[r].message = TextMessage(T_ftp)
        /\ req[r].pc = "Returned"
        /\ req[r].log = << Ev("answer", "invalid", TRUE, 1) >>

\* C3: a downloaded file larger than 49*1024*1024 bytes gets the size notice
\* and is never relayed (no delete of the progress message, no upload, no
\* confirmation) and never Done; a file of at most that size never gets the
\* size notice.
C3_Oversize ==
    \A r \in Reqs :
        LET rq == req[r]
        IN  /\ rq.filesize > 49 * 1024 * 1024 =>
                 /\ Calls(rq, RelayOps) = {}
                 /\ rq.pc # "Done"
                 /\ \/ rq.upm.site = "toolarge"
                    \/ \E i \in 1..Len(rq.log) : rq.log[i].site = "toolarge"
            /\ (rq.filesize > 0 /\ rq.filesize <= 49 * 1024 * 1024) =>
                 /\ rq.upm.site # "toolarge"
                 /\ \A i \in 1..Len(rq.log) : rq.log[i].site # "toolarge"
                 /\ ( \/ rq.pc \in {"delete_progress", "Cancelled"}
                      \/ Calls(rq, {"delete"}) # {} )

\* C3 witness: a file of exactly 49*1024*1024 + 1 bytes, the size notice shown
\* by editing the progress message, the handler returned.
C3_Witness ==
    \E r \in Reqs :
        /\ req[r].filesize = 49 * 1024 * 1024 + 1
        /\ req[r].pc = "Returned"
        /\ req[r].upm.site = "toolarge"
        /\ req[r].upm.edit = "ok"

\* C4: an existing file smaller than 49 MiB and no failing messaging call end
\* in Done with exactly one upload, audio for a name ending in ".mp3" (any
\* letter case) and video otherwise; no request ever uploads twice.
C4_OneUpload ==
    \A r \in Reqs :
        LET rq == req[r]
            uploads == Calls(rq, UploadOps)
            audio == EndsWith(Lower(rq.file_path), X_mp3)
        IN  /\ Cardinality(uploads) <= 1
            /\ \A i \in uploads :
                  rq.log[i].op = (IF audio THEN "send_audio" ELSE "answer_video")
            /\ ( /\ rq.pc \in {"Done", "Returned", "Escaped"}
                 /\ rq.filesize > 0
                 /\ rq.filesize < 49 * 1024 * 1024
                 /\ \A i \in Calls(rq, MessagingOps) : rq.log[i].ok )
               => /\ rq.pc = "Done"
                  /\ Cardinality(uploads) = 1
                  /\ \A i \in uploads : rq.log[i].ok

\* C4 witness: a request that is Done after one send_audio of "t.MP3".
C4_Witness ==
    \E r \in Reqs :
        /\ req[r].pc = "Done"
        /\ req[r].file_path = F_t_MP3
        /\ Cardinality(Calls(req[r], {"send_audio"})) = 1
        /\ Calls(req[r], {"answer_video"}) = {}

InAudioAdapter(rq) == rq.pc \in {"sc_extract", "fb_extract", "sc_tag"}

\* What C5 says of one request whose primary extraction failed with an error
\* text that mentions the converter.
C5_Once(rq) ==
    (rq.primary.raised /\ Contains(Lower(rq.primary.error), S_ffmpeg))
    => /\ Cardinality(Calls(rq, {"fallback"})) = 1
       /\ Cardinality(Calls(rq, {"run_yt_dlp"})) = 1
       /\ rq.pc # "fb_extract" =>
             IF rq.fallback.raised
             THEN \* the adapter raised: nothing was returned to handle_link
                  /\ rq.platform = ""
                  /\ rq.file_path = <<>>
                  /\ Calls(rq, RelayOps) = {}
                  /\ \E i \in 1..Len(rq.log) :
                        rq.log[i] = Ev("raise", "fallback", FALSE, NoMsgId)
             ELSE \* the adapter returns the fallback's file name
                  /\ rq.sc_filename = rq.fallback.filename
                  /\ rq.file_path \in {<<>>, rq.fallback.filename}
                  /\ rq.pc \notin {"sc_tag", "Cancelled"} =>
                        rq.file_path = rq.fallback.filename

\* C5: after a converter-related failure of run_yt_dlp, download_soundcloud
\* calls download_without_conversion exactly once, enters neither path again,
\* ends with the fallback's outcome (its file name, or a raised failure), and
\* the adapter call always comes to an end.
C5_FallbackOnce ==
    /\ [](\A r \in Reqs : C5_Once(req[r]))
    /\ \A r \in Reqs : InAudioAdapter(req[r]) ~> ~InAudioAdapter(req[r])

\* C5 witness: run_yt_dlp failed with "FFmpeg exited", the fallback returned
\* "t.m4a", and that file was relayed.
C5_Witness ==
    \E r \in Reqs :
        /\ req[r].primary = Raises(E_FFmpeg)
        /\ ~req[r].fallback.raised
        /\ req[r].file_path = F_t_m4a
        /\ req[r].pc = "Done"

\* C6 (as claimed): no exception leaves handle_link, whatever the message and
\* whichever collaborator call fails.
C6_NoEscape == \A r \in Reqs : req[r].pc # "Escaped"

\* The host of a URL: what lies between "://" and the next "/".
AfterScheme(url) ==
    IF Contains(url, <<":","/","/">>)
    THEN LET i == CHOOSE k \in 1..(Len(url) - 2) :
                     /\ SubSeq(url, k, k + 2) = <<":","/","/">>
                     /\ \A j \in 1..(k - 1) : SubSeq(url, j, j + 2) # <<":","/","/">>
         IN  SubSeq(url, i + 3, Len(url))
    ELSE url

HostOf(url) ==
    LET rest == AfterScheme(url)
    IN  IF \E k \in 1..Len(rest) : rest[k] = "/"
        THEN SubSeq(rest, 1, (CHOOSE k \in 1..Len(rest) :
                                 rest[k] = "/" /\ \A j \in 1..(k - 1) : rest[j] # "/") - 1)
        ELSE rest

\* The dispatch C7 describes: by host, the audio platform in any letter case.
ClaimedPlatform(url) ==
    LET host == HostOf(url)
    IN  IF Contains(host, S_tiktok_com) THEN "tiktok"
        ELSE IF Contains(host, S_youtube_com) \/ Contains(host, S_youtu_be)
        THEN "youtube"
        ELSE IF Contains(Lower(host), S_soundcloud_com) THEN "soundcloud"
        ELSE "unsupported"

\* What choose_downloader did for a request: the adapter it selected, or
\* "unsupported" once it raised ValueError; "" before it ran.
Dispatched(rq) ==
    IF rq.branch # "" THEN rq.branch
    ELSE IF \E i \in 1..Len(rq.log) : rq.log[i] = Ev("raise", "unsupported", FALSE, NoMsgId)
    THEN "unsupported"
    ELSE ""

\* C7 (as claimed): the dispatch sends a URL whose host contains "tiktok.com"
\* to the short-video adapter, "youtube.com"/"youtu.be" to the video adapter,
\* "soundcloud.com" (also "on.", "m.", any letter case) to the audio adapter,
\* and every other URL to Unsupported.
C7_Dispatch ==
    \A r \in Reqs :
        Dispatched(req[r]) # "" => Dispatched(req[r]) = ClaimedPlatform(req[r].url)

\* C8: update_progress_message returns a newly sent message's id, different
\* from the id passed in, when the edit failed; returns the id passed in and
\* sends nothing when the edit succeeded; and with no id passed makes no edit
\* and returns only the id of a message it sent.
C8_ProgressId ==
    \A r \in Reqs :
        LET u == req[r].upm
        IN  /\ (u.edit = "failed" /\ u.state = "returned") =>
                 /\ u.sent # NoMsgId
                 /\ u.ret = u.sent
                 /\ u.ret # u.message_id
                 /\ \E m \in chat : m.id = u.ret /\ m.site = u.site
            /\ u.edit = "ok" =>
                 /\ u.state = "returned"
                 /\ u.ret = u.message_id
                 /\ u.sent = NoMsgId
            /\ u.message_id = NoMsgId =>
                 /\ u.edit = "none"
                 /\ u.state = "returned" => (u.sent # NoMsgId /\ u.ret = u.sent)
            /\ u.state = "raised" => u.sent = NoMsgId

\* C8 witness: the edit of message 1 failed, message 2 was sent and 2 returned.
C8_Witness ==
    \E r \in Reqs :
        /\ req[r].upm.message_id = 1
        /\ req[r].upm.edit = "failed"
        /\ req[r].upm.state = "returned"
        /\ req[r].upm.ret = 2

\* A request whose synchronous extraction call (extract_info) is running.
Extracting(rq) == rq.worker = "running" \/ rq.pc \in {"sc_extract", "fb_extract"}

\* C9 (as claimed): the extraction runs on a worker thread, so while one
\* request's download is in progress the event loop can start the handler of
\* another update.
C9_LoopNotBlocked ==
    \A r \in Reqs, q \in Reqs :
        (r # q /\ Extracting(req[r]) /\ req[q].pc = "idle") => ENABLED Receive(q)

\* C10 (as claimed): no request reports "File not found" while its directory
\* holds a file with a known media extension.
C10_ScanBeforeNotFound ==
    \A r \in Reqs :
        (req[r].upm.site = "notfound" /\ req[r].tmpdir = "exists")
        => ~\E f \in req[r].files : ScanMatches(f.name)

\* C11 (as claimed): add_metadata_to_mp3 is called only for a file that exists
\* and a non-empty info record; the call never raises, and after it the
\* adapter has returned the file name to handle_link.
C11_Tagging ==
    \A r \in Reqs :
        LET rq == req[r]
        IN  rq.tag.state # "none" =>
               /\ rq.tag.file
               /\ rq.tag.info
               /\ rq.tag.state = "returned"
               /\ rq.file_path = rq.sc_filename
               /\ rq.platform = "soundcloud"

AdapterOps == { "adapter", "run_yt_dlp", "fallback" }

\* C12: a link (scheme present) that contains none of "tiktok.com",
\* "youtube.com", "youtu.be", "soundcloud.com" never reaches an adapter, never
\* gets a platform or "sending" progress text and is never Done; when the
\* handler has returned, the error notice is in the chat, as the edited progress
\* message or as a new message.  For the other links every adapter call comes
\* after the platform's progress text was delivered for the selected adapter.
C12_Unsupported ==
    \A r \in Reqs :
        LET rq == req[r]
            link == /\ rq.pc # "idle"
                    /\ rq.message.has_text
                    /\ StartsWith(rq.url, S_http) \/ StartsWith(rq.url, S_https)
            nomatch == \A p \in { S_tiktok_com, S_youtube_com, S_youtu_be,
                                  S_soundcloud_com } : ~Contains(rq.url, p)
        IN  /\ (link /\ nomatch) =>
                 /\ Calls(rq, AdapterOps) = {}
                 /\ rq.worker = "none"
                 /\ rq.branch = ""
                 /\ \A i \in 1..Len(rq.log) :
                       rq.log[i].site \notin {"platform", "sending"}
                 /\ rq.upm.site \in {"checking", "dlerr"}
                 /\ rq.pc \in {"upm_edit", "upm_send", "choose"} \cup FailedStates
                 /\ rq.pc = "Returned" =>
                       /\ rq.upm.site = "dlerr"
                       /\ \E m \in chat :
                             m.req = r /\ m.site = "dlerr" /\ m.id = rq.upm.ret
            /\ \A i \in Calls(rq, {"adapter"}) :
                 /\ rq.log[i].site = rq.branch
                 /\ \E j \in 1..(i - 1) :
                       /\ rq.log[j].op \in {"edit", "send"}
                       /\ rq.log[j].site = "platform"
                       /\ rq.log[j].ok

\* C12 witness: "https://example.com/a" ended with the error notice shown by
\* editing the progress message.
C12_Witness ==
    \E r \in Reqs :
        /\ req[r].message = TextMessage(T_other)
        /\ req[r].pc = "Returned"
        /\ req[r].upm.site = "dlerr"
        /\ req[r].upm.edit = "ok"
        /\ req[r].upm.ret = req[r].progress_msg_id

\* C13: once an upload (send_audio or answer_video) has raised, the request
\* sends no confirmation and is never Done; it reports "Sending error" through
\* update_progress_message with the progress id -- an edit when that message is
\* still there, a new message otherwise -- and when the handler has returned
\* the notice is in the chat.
C13_UploadRaises ==
    \A r \in Reqs :
        LET rq == req[r]
            failed == { i \in Calls(rq, UploadOps) : ~rq.log[i].ok }
        IN  failed # {} =>
               /\ Calls(rq, {"success"}) = {}
               /\ rq.pc \in {"upm_edit", "upm_send"} \cup FailedStates
               /\ rq.upm.site = "senderr"
               /\ rq.upm.message_id = rq.progress_msg_id
               /\ rq.upm.edit = "ok" =>
                     \E m \in chat : m.id = rq.progress_msg_id /\ m.site = "senderr"
               /\ rq.pc = "Returned" =>
                     \E m \in chat :
                        m.req = r /\ m.site = "senderr" /\ m.id = rq.upm.ret

\* C13 witness: answer_video raised; the deleted progress message could not be
\* edited, so "Sending error" went out as a new message and the handler returned.
C13_Witness ==
    \E r \in Reqs :
        /\ \E i \in 1..Len(req[r].log) :
              req[r].log[i] = Ev("answer_video", "file", FALSE, NoMsgId)
        /\ req[r].pc = "Returned"
        /\ req[r].upm.site = "senderr"
        /\ req[r].upm.edit = "failed"
        /\ req[r].upm.sent # NoMsgId

\* What C14 says of one request at every moment: one adapter at most, called
\* once at most, the fallback being the only second extraction.
C14_OneAdapter(rq) ==
    /\ Cardinality(Calls(rq, {"adapter"})) <= 1
    /\ Cardinality(Calls(rq, {"run_yt_dlp"})) <= 1
    /\ Cardinality(Calls(rq, {"fallback"})) <= 1
    /\ \A i \in Calls(rq, {"adapter"}) : rq.log[i].site = rq.branch
    /\ Calls(rq, {"run_yt_dlp", "fallback"}) # {} => rq.branch = "soundcloud"
    /\ rq.worker # "none" => rq.branch \in {"tiktok", "youtube"}

\* C14: when every collaborator call returns or raises, a request that was
\* received ends in Done or in Failed (returned, escaped or cancelled); once
\* ended it stays in that state and makes no further collaborator call; and it
\* calls one adapter at most, once.
C14_Terminates ==
    /\ \A r \in Reqs : (req[r].pc # "idle") ~> (req[r].pc \in Terminal)
    /\ [][\A r \in Reqs :
            req[r].pc \in Terminal =>
               /\ req'[r].pc = req[r].pc
               /\ req'[r].log = req[r].log
               /\ req'[r].upm = req[r].upm]_vars
    /\ [](\A r \in Reqs : C14_OneAdapter(req[r]))

\* C14 witness: a request that is Done after the primary extraction and the
\* fallback, each called once.
C14_Witness ==
    \E r \in Reqs :
        /\ req[r].pc = "Done"
        /\ Cardinality(Calls(req[r], {"adapter"})) = 1
        /\ Cardinality(Calls(req[r], {"run_yt_dlp"})) = 1
        /\ Cardinality(Calls(req[r], {"fallback"})) = 1

\* C15: the relay calls are made in the order delete_message, upload,
\* confirmation, each once at most: an upload is preceded by a delete_message
\* that did not raise, a confirmation by an upload that did not raise, and
\* nothing of the relay precedes the delete.
C15_RelayOrder ==
    \A r \in Reqs :
        LET rq == req[r]
            deletes == Calls(rq, {"delete"})
            uploads == Calls(rq, UploadOps)
            confirms == Calls(rq, {"success"})
        IN  /\ Cardinality(deletes) <= 1
            /\ Cardinality(uploads) <= 1
            /\ Cardinality(confirms) <= 1
            /\ \A i \in uploads : \E j \in deletes : j < i /\ rq.log[j].ok
            /\ \A k \in confirms : \E i \in uploads : i < k /\ rq.log[i].ok
            /\ \A j \in deletes : \A i \in uploads \cup confirms : j < i
            /\ rq.pc = "upload" => \E j \in deletes : rq.log[j].ok
            /\ rq.pc = "success" => \E i \in uploads : rq.log[i].ok

\* C15 witness: a request that is Done; its last three calls were the delete
\* of the progress message, send_audio and the confirmation.
C15_Witness ==
    \E r \in Reqs :
        LET rq == req[r]
            n == Len(rq.log)
        IN  /\ rq.pc = "Done"
            /\ n >= 3
            /\ rq.log[n - 2].op = "delete" /\ rq.log[n - 2].ok
            /\ rq.log[n - 2].id = rq.progress_msg_id
            /\ rq.log[n - 1].op = "send_audio" /\ rq.log[n - 1].ok
            /\ rq.log[n].op = "success" /\ rq.log[n].ok

ProgressSites == { "checking", "platform", "sending" }

\* The last position before i of a progress call that returned an id.
LastReturned(rq, i) ==
    LET prev == { j \in 1..(i - 1) : rq.log[j].op \in {"edit", "send"} /\ rq.log[j].ok }
    IN  IF prev = {} THEN 0 ELSE CHOOSE j \in prev : \A k \in prev : k <= j

\* C16 (as claimed): every edit_message_text and delete_message of a request
\* targets the id that update_progress_message returned last, and at most one
\* progress notice of the request is in the chat.
C16_TracksProgressId ==
    \A r \in Reqs :
        LET rq == req[r]
        IN  /\ \A i \in Calls(rq, {"edit", "delete"}) :
                  /\ LastReturned(rq, i) # 0
                  /\ rq.log[i].id = rq.log[LastReturned(rq, i)].id
            /\ Cardinality({ m \in chat : m.req = r /\ m.site \in ProgressSites }) <= 1

\* What C17 says of one request at every moment: each edit_message_text and
\* delete_message it made targeted an id that an earlier update_progress_message
\* call of the same request had returned, and its local progress id is such an
\* id, the id of a message this request sent.
C17_OwnIds(r) ==
    LET rq == req[r]
        returned(i) == { rq.log[j].id : j \in { k \in 1..(i - 1) :
                            rq.log[k].op \in {"edit", "send"} /\ rq.log[k].ok } }
    IN  /\ \A i \in Calls(rq, {"edit", "delete"}) : rq.log[i].id \in returned(i)
        /\ rq.progress_msg_id # NoMsgId =>
              rq.progress_msg_id \in returned(Len(rq.log) + 1)
        /\ \A q \in Reqs \ {r} :
              \A i \in Calls(rq, {"edit", "delete"}) :
                 \A j \in Calls(req[q], {"send"}) : rq.log[i].id # req[q].log[j].id

\* C17: with several handle_link invocations interleaved, a request edits and
\* deletes only ids returned to itself; the module-level progress_message is
\* never assigned; and a message of the chat is changed or removed only in a
\* step of the request that sent it.
C17_PerRequestProgress ==
    /\ [](\A r \in Reqs : C17_OwnIds(r))
    /\ [](progress_message = "None")
    /\ [][\A m \in chat : m \notin chat' => req'[m.req] # req[m.req]]_vars

\* C17 witness: two requests past their download at once, each having edited
\* its own progress message, the two ids different.
C17_Witness ==
    \E r \in Reqs, q \in Reqs :
        /\ r # q
        /\ req[r].pc = "delete_progress"
        /\ req[q].pc = "delete_progress"
        /\ req[r].progress_msg_id # req[q].progress_msg_id
        /\ Calls(req[r], {"edit"}) # {}
        /\ Calls(req[q], {"edit"}) # {}

\* The resolution C18 describes: the tools directory's converter, else the one
\* on the search path, else none.
ClaimedFfmpegPath(env) ==
    IF env.tools_ffmpeg THEN "tools/ffmpeg"
    ELSE IF env.path_ffmpeg THEN "PATH/ffmpeg"
    ELSE "None"

\* C18 (as claimed): get_ffmpeg_path answers the converter of the tools
\* directory when it is there, otherwise the converter on the search path --
\* also when the tools directory does not exist -- and None only when there is
\* no converter in either place.
C18_FfmpegPath ==
    \A r \in Reqs :
        Calls(req[r], {"run_yt_dlp"}) # {} =>
            req[r].ffmpeg_executable = ClaimedFfmpegPath(req[r].env)

\* C19 (as claimed): run_yt_dlp puts the mp3 post-processor into the options
\* only when get_ffmpeg_path resolved a converter.
C19_TranscodeOnlyWithConverter ==
    \A r \in Reqs :
        (Calls(req[r], {"run_yt_dlp"}) # {} /\ req[r].ydl_opts.postprocessors)
        => req[r].ffmpeg_executable # "None"

\* run_yt_dlp was called and has returned its result.
PrimaryDone(rq) == Calls(rq, {"run_yt_dlp"}) # {} /\ rq.pc # "sc_extract"

\* C20: download_without_conversion is called exactly when run_yt_dlp failed
\* with an error text containing "ffmpeg" in any letter case.  After any other
\* failure there is no fallback: the adapter raises, handle_link reports the
\* error and never has a file.  After a success there is no fallback either.
C20_FallbackIff ==
    \A r \in Reqs :
        LET rq == req[r]
            mentions == Contains(Lower(rq.primary.error), S_ffmpeg)
            fallbacks == Calls(rq, {"fallback"})
        IN  /\ ~PrimaryDone(rq) => fallbacks = {}
            /\ PrimaryDone(rq) =>
                 /\ (rq.primary.raised /\ mentions) => Cardinality(fallbacks) = 1
                 /\ (rq.primary.raised /\ ~mentions) =>
                       /\ fallbacks = {}
                       /\ rq.fallback = NoOutcome
                       /\ \E i \in 1..Len(rq.log) :
                             rq.log[i] = Ev("raise", "soundcloud", FALSE, NoMsgId)
                       /\ rq.upm.site = "dlerr"
                       /\ rq.file_path = <<>>
                       /\ rq.pc \in {"upm_edit", "upm_send"} \cup FailedStates
                 /\ ~rq.primary.raised =>
                       /\ fallbacks = {}
                       /\ rq.fallback = NoOutcome

\* C20 witness: run_yt_dlp failed with "HTTP Error 404"; no fallback was made
\* and the handler returned after the error notice.
C20_Witness ==
    \E r \in Reqs :
        /\ PrimaryDone(req[r])
        /\ req[r].primary = Raises(E_http)
        /\ Calls(req[r], {"fallback"}) = {}
        /\ req[r].pc = "Returned"
        /\ req[r].upm.site = "dlerr"

ErrorSites == { "senderr", "dlerr", "notfound", "toolarge" }

\* C21 (as claimed): no request has both an upload that succeeded and an error
\* notice ("Sending error", "Error", "File not found", the size notice) that
\* was delivered.
C21_DeliveryXorFailure ==
    \A r \in Reqs :
        LET rq == req[r]
            delivered == { i \in Calls(rq, UploadOps) : rq.log[i].ok }
            notices == { i \in Calls(rq, {"edit", "send"}) :
                            rq.log[i].ok /\ rq.log[i].site \in ErrorSites }
        IN  delivered = {} \/ notices = {}

\* C22 (as claimed): every upload of a file that download_soundcloud returned
\* is a send_audio, whether the file is the transcoded mp3, the fallback's
\* original container or a file found by the directory scan.
C22_AudioAsAudio ==
    \A r \in Reqs :
        req[r].platform = "soundcloud" =>
            \A i \in Calls(req[r], UploadOps) : req[r].log[i].op = "send_audio"

=============================================================================
